---- MODULE Spec2Model ----
(***************************************************************************)
(* Model of global_static::Global<T> (src/src/lib.rs) and of the startup   *)
(* functions generated by ctor_static! / #[singleton] / #[singleton_fn].   *)
(*                                                                         *)
(* A Global holds a producer `f` and a once-settable cell `data`           *)
(* (OnceLock<SendPtr<T>>).  Threads call init, deref, get and              *)
(* get_unchecked; every access to `data` is one atomic step, the producer  *)
(* call and the Box allocation of alloc() are steps of their own, so that  *)
(* threads interleave between the check of the cell and its publication.   *)
(***************************************************************************)
EXTENDS Integers, Sequences, FiniteSets, TLC

\* ---- bounds -------------------------------------------------------------
NumThreads == 2        \* threads of the process; thread 1 is the main thread
NumContainers == 2     \* declared statics
MaxCalls == 2          \* operations called by threads once main() runs

Threads == 1..NumThreads
Containers == 1..NumContainers
MainThread == 1

\* ---- values -------------------------------------------------------------
Empty == 0             \* OnceLock::new(): the cell holds no pointer
NoneRet == -1          \* Option::None returned by get()
UnitRet == -2          \* () returned by init()
NoRet == -3            \* the call has not returned
PanicRet == -4         \* the call was left by a panic

Ops == {"init", "deref", "get", "get_unchecked"}
\* programs that format a Global with {:?} or {}: Debug::fmt / Display::fmt
FmtOps == {"fmt", "init", "get"}
Triggers == {"init", "deref", "fmt"}

VARIABLES
    data,          \* data[c]: the OnceLock of container c: Empty or an address
    heap,          \* heap[a]: the leaked Box at address a, <<c, k>> = result of
                   \*          the k-th invocation of the producer of c
    calls,         \* calls[c]: invocations of (self.f)() of container c
    pc,            \* pc[t]: position of thread t inside its current call
    op,            \* op[t]: operation thread t called last ("none" before)
    cont,          \* cont[t]: container thread t operates on
    val,           \* val[t]: alloc's temporary, the value returned by f
    ptr,           \* ptr[t]: alloc's local `ptr`
    ret,           \* ret[t]: value returned by the last call of t
    phase,         \* "startup" while the ctor hooks run, then "main"
    hooks,         \* startup functions still to run, each a sequence of containers
    registered,    \* containers declared with a startup function
    blockDecl,     \* TRUE iff the containers were declared in one ctor_static! block
    crashed,       \* the process was aborted
    ubHit,         \* an unchecked unwrap met None / Err
    orphans,       \* addresses whose publication by set() failed
    nCalls,        \* operations called since main() started
    trigStarted,   \* trigStarted[c]: an init/deref on c was called
    trigReturned,  \* trigReturned[c]: an init/deref on c returned
    dataAtCall,    \* dataAtCall[t]: data[cont[t]] when t's call started
    trigDoneAtCall,\* trigDoneAtCall[t]: trigReturned[cont[t]] when t's call started
    myCalls,       \* myCalls[t]: producer invocations made by t's current call
    myAllocs,      \* myAllocs[t]: Box allocations made by t's current call
    startupInits,  \* startupInits[c]: init() calls made on c by startup functions
    fillOrder,     \* containers in the order their cells were filled
    faults,        \* what went wrong so far: "panic", "alloc", "contract"
    disjoint       \* disjoint[c]: every trigger on c returned before the
                   \*              next trigger on c was called

vars == <<data, heap, calls, pc, op, cont, val, ptr, ret, phase, hooks,
          registered, blockDecl, crashed, ubHit, orphans, nCalls, trigStarted,
          trigReturned, dataAtCall, trigDoneAtCall, myCalls, myAllocs,
          startupInits, fillOrder, faults, disjoint>>

ghosts == <<registered, blockDecl>>

\* ---- pure helpers -------------------------------------------------------

\* Global::new that leaves a dangling pointer in the cell
NewFilled(c) == 1

\* Global::new(f): stores the producer, the cell is OnceLock::new()
New(c) == Empty

\* (self.f)(): the k-th invocation of the producer of container c
Producer(c, k) == <<c, k>>

\* OnceLock::get(): Some(ptr) or None
OnceLockGet(cell) == IF cell = Empty THEN NoneRet ELSE cell

\* a set() that overwrites a filled cell
OnceLockSetOverwrite(cell, v) == [cell |-> v, ok |-> TRUE]

\* OnceLock::set(v): Ok and the cell holds v if it was empty, Err and the
\* cell is unchanged otherwise
OnceLockSet(cell, v) ==
    IF cell = Empty THEN [cell |-> v, ok |-> TRUE]
                    ELSE [cell |-> cell, ok |-> FALSE]

\* ctor_gen_inits! that forgets the last declaration
CtorGenInitsDropLast(n) == [i \in 1..(n - 1) |-> i]

\* ctor_gen_inits! that emits the init() calls in reverse order
CtorGenInitsReversed(n) == [i \in 1..n |-> n + 1 - i]

\* ctor_gen_inits!: one `$name.init();` per declaration, in declaration order
CtorGenInits(n) == [i \in 1..n |-> i]

\* #[singleton] / #[singleton_fn]: one startup function per static
SingletonInits(c) == <<c>>

RECURSIVE Perms(_)
Perms(S) ==
    IF S = {} THEN {<<>>}
    ELSE UNION {{<<x>> \o p : p \in Perms(S \ {x})} : x \in S}

\* what a reference produced by undefined behaviour may point at
UBAddrs == 0..Len(heap)

\* ---- initial state ------------------------------------------------------

HookChoices ==
    {<<>>} \cup {<<CtorGenInits(NumContainers)>>}
           \cup {[i \in 1..NumContainers |-> SingletonInits(p[i])] :
                    p \in Perms(Containers)}

Init ==
    /\ data = [c \in Containers |-> New(c)]
    /\ heap = <<>>
    /\ calls = [c \in Containers |-> 0]
    /\ pc = [t \in Threads |-> "idle"]
    /\ op = [t \in Threads |-> "none"]
    /\ cont = [t \in Threads |-> 1]
    /\ val = [t \in Threads |-> <<>>]
    /\ ptr = [t \in Threads |-> Empty]
    /\ ret = [t \in Threads |-> NoRet]
    /\ hooks \in HookChoices
    /\ blockDecl \in BOOLEAN
    /\ blockDecl = (hooks = <<CtorGenInits(NumContainers)>>)
    /\ registered = IF hooks = <<>> THEN {} ELSE Containers
    /\ phase = IF hooks = <<>> THEN "main" ELSE "startup"
    /\ crashed = FALSE
    /\ ubHit = FALSE
    /\ orphans = {}
    /\ nCalls = 0
    /\ trigStarted = [c \in Containers |-> FALSE]
    /\ trigReturned = [c \in Containers |-> FALSE]
    /\ dataAtCall = [t \in Threads |-> Empty]
    /\ trigDoneAtCall = [t \in Threads |-> FALSE]
    /\ myCalls = [t \in Threads |-> 0]
    /\ myAllocs = [t \in Threads |-> 0]
    /\ startupInits = [c \in Containers |-> 0]
    /\ fillOrder = <<>>
    /\ faults = {}
    /\ disjoint = [c \in Containers |-> TRUE]

\* ---- calls and returns --------------------------------------------------

\* a Debug / Display that formats what get() returns instead of going
\* through deref
EntryPcFmtViaGet(o) ==
    CASE o = "init" -> "init_check"
      [] o = "deref" -> "deref_check"
      [] o = "get" -> "get_read"
      [] o = "get_unchecked" -> "gu_read"
      [] o = "fmt" -> "get_read"

\* where each operation starts; Debug::fmt and Display::fmt start with
\* `self.deref()`
EntryPc(o) ==
    CASE o = "init" -> "init_check"
      [] o = "deref" -> "deref_check"
      [] o = "get" -> "get_read"
      [] o = "get_unchecked" -> "gu_read"
      [] o = "fmt" -> "deref_check"

\* a trigger on c was called and has not returned
TriggerOpen(c) ==
    \E u \in Threads : op[u] \in Triggers /\ cont[u] = c /\ pc[u] # "idle"

\* thread t enters operation o on container c
Enter(t, c, o) ==
    /\ pc' = [pc EXCEPT ![t] = EntryPc(o)]
    /\ op' = [op EXCEPT ![t] = o]
    /\ cont' = [cont EXCEPT ![t] = c]
    /\ ret' = [ret EXCEPT ![t] = NoRet]
    /\ val' = [val EXCEPT ![t] = <<>>]
    /\ ptr' = [ptr EXCEPT ![t] = Empty]
    /\ dataAtCall' = [dataAtCall EXCEPT ![t] = data[c]]
    /\ trigDoneAtCall' = [trigDoneAtCall EXCEPT ![t] = trigReturned[c]]
    /\ myCalls' = [myCalls EXCEPT ![t] = 0]
    /\ myAllocs' = [myAllocs EXCEPT ![t] = 0]
    /\ trigStarted' = IF o \in Triggers
                      THEN [trigStarted EXCEPT ![c] = TRUE] ELSE trigStarted
    /\ disjoint' = IF o \in Triggers /\ TriggerOpen(c)
                   THEN [disjoint EXCEPT ![c] = FALSE] ELSE disjoint

\* thread t returns r from its current call
Return(t, r) ==
    /\ pc' = [pc EXCEPT ![t] = "idle"]
    /\ ret' = [ret EXCEPT ![t] = r]
    /\ trigReturned' = IF op[t] \in Triggers
                       THEN [trigReturned EXCEPT ![cont[t]] = TRUE]
                       ELSE trigReturned

\* alloc()'s locals go out of scope when thread t leaves it
DropLocals(t) ==
    /\ val' = [val EXCEPT ![t] = <<>>]
    /\ ptr' = [ptr EXCEPT ![t] = Empty]

\* the process is aborted: no thread runs any further
Abort ==
    /\ crashed' = TRUE
    /\ UNCHANGED <<pc, ret, trigReturned>>

\* a thread of the running program calls an operation
Call(t, c, o) ==
    /\ ~crashed
    /\ phase = "main"
    /\ pc[t] = "idle"
    /\ nCalls < MaxCalls
    /\ nCalls' = nCalls + 1
    /\ Enter(t, c, o)
    /\ UNCHANGED <<data, heap, calls, phase, hooks, ghosts, faults, crashed,
                   ubHit,
                   orphans, trigReturned, startupInits, fillOrder>>

\* the startup function calls init() on its next static
StartupCall ==
    /\ ~crashed
    /\ phase = "startup"
    /\ pc[MainThread] = "idle"
    /\ hooks # <<>>
    /\ LET h == Head(hooks)
           c == Head(h)
       IN /\ hooks' = IF Len(h) = 1 THEN Tail(hooks)
                                    ELSE <<Tail(h)>> \o Tail(hooks)
          /\ startupInits' = [startupInits EXCEPT ![c] = @ + 1]
          /\ Enter(MainThread, c, "init")
    /\ UNCHANGED <<data, heap, calls, phase, ghosts, faults, crashed, ubHit,
                   orphans,
                   nCalls, trigReturned, fillOrder>>

\* every startup function has returned: main() starts
StartupDone ==
    /\ ~crashed
    /\ phase = "startup"
    /\ pc[MainThread] = "idle"
    /\ hooks = <<>>
    /\ phase' = "main"
    /\ UNCHANGED <<data, heap, calls, pc, op, cont, val, ptr, ret, hooks,
                   ghosts,
                   faults, disjoint, crashed, ubHit, orphans, nCalls, trigStarted,
                   trigReturned, dataAtCall, trigDoneAtCall, myCalls, myAllocs,
                   startupInits, fillOrder>>

\* ---- Global::init ---------------------------------------------------------

\* an init() that returns without looking at the cell or allocating
InitCheckNoAlloc(t) ==
    /\ ~crashed
    /\ pc[t] = "init_check"
    /\ Return(t, UnitRet)
    /\ UNCHANGED <<data, heap, calls, op, cont, val, ptr, phase, hooks, ghosts,
                   faults, disjoint,
                   crashed, ubHit, orphans, nCalls, trigStarted, dataAtCall,
                   trigDoneAtCall, myCalls, myAllocs, startupInits, fillOrder>>

\* an init() that allocates without looking at the cell
InitCheckAlways(t) ==
    /\ ~crashed
    /\ pc[t] = "init_check"
    /\ pc' = [pc EXCEPT ![t] = "produce"]
    /\ UNCHANGED <<ret, trigReturned>>
    /\ UNCHANGED <<data, heap, calls, op, cont, val, ptr, phase, hooks, ghosts,
                   faults, disjoint,
                   crashed, ubHit, orphans, nCalls, trigStarted, dataAtCall,
                   trigDoneAtCall, myCalls, myAllocs, startupInits, fillOrder>>

\* `if let None = self.data.get() { let _ = unsafe { self.alloc() }; }`
InitCheck(t) ==
    /\ ~crashed
    /\ pc[t] = "init_check"
    /\ IF OnceLockGet(data[cont[t]]) = NoneRet
       THEN /\ pc' = [pc EXCEPT ![t] = "produce"]
            /\ UNCHANGED <<ret, trigReturned>>
       ELSE Return(t, UnitRet)
    /\ UNCHANGED <<data, heap, calls, op, cont, val, ptr, phase, hooks, ghosts,
                   faults, disjoint,
                   crashed, ubHit, orphans, nCalls, trigStarted, dataAtCall,
                   trigDoneAtCall, myCalls, myAllocs, startupInits, fillOrder>>

\* ---- Deref::deref ---------------------------------------------------------

\* `match self.data.get() { Some(v) => &***v, None => &*self.alloc() }`
DerefCheck(t) ==
    /\ ~crashed
    /\ pc[t] = "deref_check"
    /\ IF OnceLockGet(data[cont[t]]) = NoneRet
       THEN /\ pc' = [pc EXCEPT ![t] = "produce"]
            /\ UNCHANGED <<ret, trigReturned>>
       ELSE Return(t, OnceLockGet(data[cont[t]]))
    /\ UNCHANGED <<data, heap, calls, op, cont, val, ptr, phase, hooks, ghosts,
                   faults, disjoint,
                   crashed, ubHit, orphans, nCalls, trigStarted, dataAtCall,
                   trigDoneAtCall, myCalls, myAllocs, startupInits, fillOrder>>

\* ---- Global::get ----------------------------------------------------------

\* a get() that allocates on an empty cell, as deref does
GetAllocating(t) ==
    /\ ~crashed
    /\ pc[t] = "get_read"
    /\ IF OnceLockGet(data[cont[t]]) = NoneRet
       THEN /\ pc' = [pc EXCEPT ![t] = "produce"]
            /\ UNCHANGED <<ret, trigReturned>>
       ELSE Return(t, OnceLockGet(data[cont[t]]))
    /\ UNCHANGED <<data, heap, calls, op, cont, val, ptr, phase, hooks, ghosts,
                   faults, disjoint,
                   crashed, ubHit, orphans, nCalls, trigStarted, dataAtCall,
                   trigDoneAtCall, myCalls, myAllocs, startupInits, fillOrder>>

\* `self.data.get().map(|ptr| &***ptr)`
Get(t) ==
    /\ ~crashed
    /\ pc[t] = "get_read"
    /\ Return(t, OnceLockGet(data[cont[t]]))
    /\ UNCHANGED <<data, heap, calls, op, cont, val, ptr, phase, hooks, ghosts,
                   faults, disjoint,
                   crashed, ubHit, orphans, nCalls, trigStarted, dataAtCall,
                   trigDoneAtCall, myCalls, myAllocs, startupInits, fillOrder>>

\* ---- Global::get_unchecked ------------------------------------------------

\* `&***self.data.get().unwrap_unchecked()`: on None the behaviour is
\* undefined: the build either aborts or hands out some reference
GetUnchecked(t) ==
    /\ ~crashed
    /\ pc[t] = "gu_read"
    /\ IF OnceLockGet(data[cont[t]]) # NoneRet
       THEN /\ Return(t, OnceLockGet(data[cont[t]]))
            /\ UNCHANGED <<crashed, ubHit, faults>>
       ELSE /\ ubHit' = TRUE
            /\ faults' = faults \cup {"contract"}
            /\ \/ Abort
               \/ /\ \E a \in UBAddrs : Return(t, a)
                  /\ UNCHANGED crashed
    /\ UNCHANGED <<data, heap, calls, op, cont, val, ptr, phase, hooks, ghosts,
                   disjoint, orphans, nCalls, trigStarted, dataAtCall,
                   trigDoneAtCall, myCalls, myAllocs, startupInits, fillOrder>>

\* ---- Global::alloc --------------------------------------------------------

\* an alloc() that publishes the address it is about to fill before it
\* calls the producer
AllocProducePublishEarly(t) ==
    /\ ~crashed
    /\ pc[t] = "produce"
    /\ data' = [data EXCEPT ![cont[t]] =
                    OnceLockSet(data[cont[t]], Len(heap) + 1).cell]
    /\ calls' = [calls EXCEPT ![cont[t]] = @ + 1]
    /\ val' = [val EXCEPT ![t] = Producer(cont[t], calls[cont[t]] + 1)]
    /\ myCalls' = [myCalls EXCEPT ![t] = @ + 1]
    /\ pc' = [pc EXCEPT ![t] = "box"]
    /\ UNCHANGED <<heap, op, cont, ptr, ret, phase, hooks, ghosts,
                   faults, disjoint, crashed, ubHit, orphans, nCalls,
                   trigStarted, trigReturned, dataAtCall, trigDoneAtCall,
                   myAllocs, startupInits, fillOrder>>

\* `(self.f)()`
AllocProduce(t) ==
    /\ ~crashed
    /\ pc[t] = "produce"
    /\ calls' = [calls EXCEPT ![cont[t]] = @ + 1]
    /\ val' = [val EXCEPT ![t] = Producer(cont[t], calls[cont[t]] + 1)]
    /\ myCalls' = [myCalls EXCEPT ![t] = @ + 1]
    /\ pc' = [pc EXCEPT ![t] = "box"]
    /\ UNCHANGED <<data, heap, op, cont, ptr, ret, phase, hooks, ghosts,
                   faults, disjoint,
                   crashed, ubHit, orphans, nCalls, trigStarted, trigReturned,
                   dataAtCall, trigDoneAtCall, myAllocs, startupInits,
                   fillOrder>>

\* `let ptr = Box::leak(Box::new(..)) as *const T;`
AllocBox(t) ==
    /\ ~crashed
    /\ pc[t] = "box"
    /\ heap' = Append(heap, val[t])
    /\ ptr' = [ptr EXCEPT ![t] = Len(heap) + 1]
    /\ myAllocs' = [myAllocs EXCEPT ![t] = @ + 1]
    /\ pc' = [pc EXCEPT ![t] = "set"]
    /\ UNCHANGED <<data, calls, op, cont, val, ret, phase, hooks, ghosts,
                   faults, disjoint,
                   crashed, ubHit, orphans, nCalls, trigStarted, trigReturned,
                   dataAtCall, trigDoneAtCall, myCalls, startupInits,
                   fillOrder>>

\* an alloc() that publishes the address of its allocation before the value
\* is built, and so leaves it in the cell when the producer panics
AllocFailPublished(t) ==
    /\ ~crashed
    /\ pc[t] = "box"
    /\ faults' = faults \cup {"panic"}
    /\ data' = [data EXCEPT ![cont[t]] = Len(heap) + 1]
    /\ pc' = [pc EXCEPT ![t] = "idle"]
    /\ ret' = [ret EXCEPT ![t] = PanicRet]
    /\ disjoint' = [disjoint EXCEPT ![cont[t]] = FALSE]
    /\ DropLocals(t)
    /\ UNCHANGED <<heap, calls, op, cont, phase, hooks, ghosts, crashed,
                   trigReturned, ubHit, orphans, nCalls, trigStarted,
                   dataAtCall, trigDoneAtCall, myCalls, myAllocs, startupInits,
                   fillOrder>>

\* `Box::new((self.f)())` fails before anything is published: the producer
\* panics, or the allocation fails.  A panic unwinds out of the call (out of
\* a startup function it aborts the process); a failed allocation aborts or
\* unwinds ("box will panic if it cannot allocate")
AllocFail(t) ==
    /\ ~crashed
    /\ pc[t] = "box"
    /\ \E kind \in {"panic", "alloc"} :
          /\ faults' = faults \cup {kind}
          /\ \/ /\ kind = "alloc" \/ phase = "startup"
                /\ Abort
                /\ UNCHANGED <<disjoint, val, ptr>>
             \/ /\ phase = "main"
                /\ pc' = [pc EXCEPT ![t] = "idle"]
                /\ ret' = [ret EXCEPT ![t] = PanicRet]
                /\ disjoint' = [disjoint EXCEPT ![cont[t]] = FALSE]
                /\ DropLocals(t)
                /\ UNCHANGED <<crashed, trigReturned>>
    /\ UNCHANGED <<data, heap, calls, op, cont, phase, hooks, ghosts,
                   ubHit, orphans, nCalls, trigStarted, dataAtCall,
                   trigDoneAtCall, myCalls, myAllocs, startupInits, fillOrder>>

\* a set() on one cell shared by all the statics
AllocSetShared(t) ==
    /\ ~crashed
    /\ pc[t] = "set"
    /\ LET c == cont[t]
           r == OnceLockSet(data[c], ptr[t])
       IN /\ data' = [b \in Containers |-> OnceLockSet(data[b], ptr[t]).cell]
          /\ IF r.ok
             THEN /\ fillOrder' = Append(fillOrder, c)
                  /\ pc' = [pc EXCEPT ![t] = "reread"]
                  /\ UNCHANGED <<ret, trigReturned, crashed, ubHit, orphans,
                                 val, ptr>>
             ELSE /\ ubHit' = TRUE
                  /\ orphans' = orphans \cup {ptr[t]}
                  /\ UNCHANGED fillOrder
                  /\ \/ /\ pc' = [pc EXCEPT ![t] = "reread"]
                        /\ UNCHANGED <<ret, trigReturned, crashed, val, ptr>>
                     \/ /\ Abort
                        /\ UNCHANGED <<val, ptr>>
                     \/ /\ \E a \in UBAddrs :
                              Return(t, IF op[t] = "init" THEN UnitRet ELSE a)
                        /\ DropLocals(t)
                        /\ UNCHANGED crashed
    /\ UNCHANGED <<heap, calls, op, cont, phase, hooks, ghosts,
                   faults, disjoint,
                   nCalls, trigStarted, dataAtCall, trigDoneAtCall, myCalls,
                   myAllocs, startupInits>>

\* `self.data.set(SendPtr(ptr)).unwrap_unchecked();`: on Err the behaviour is
\* undefined: the build goes on to the next statement, aborts, or returns
\* some reference
AllocSet(t) ==
    /\ ~crashed
    /\ pc[t] = "set"
    /\ LET c == cont[t]
           r == OnceLockSet(data[c], ptr[t])
       IN /\ data' = [data EXCEPT ![c] = r.cell]
          /\ IF r.ok
             THEN /\ fillOrder' = Append(fillOrder, c)
                  /\ pc' = [pc EXCEPT ![t] = "reread"]
                  /\ UNCHANGED <<ret, trigReturned, crashed, ubHit, orphans,
                                 val, ptr>>
             ELSE /\ ubHit' = TRUE
                  /\ orphans' = orphans \cup {ptr[t]}
                  /\ UNCHANGED fillOrder
                  /\ \/ /\ pc' = [pc EXCEPT ![t] = "reread"]
                        /\ UNCHANGED <<ret, trigReturned, crashed, val, ptr>>
                     \/ /\ Abort
                        /\ UNCHANGED <<val, ptr>>
                     \/ /\ \E a \in UBAddrs :
                              Return(t, IF op[t] = "init" THEN UnitRet ELSE a)
                        /\ DropLocals(t)
                        /\ UNCHANGED crashed
    /\ UNCHANGED <<heap, calls, op, cont, phase, hooks, ghosts,
                   faults, disjoint,
                   nCalls, trigStarted, dataAtCall, trigDoneAtCall, myCalls,
                   myAllocs, startupInits>>

\* `**self.data.get().unwrap_unchecked()`: the cell is filled here
AllocReread(t) ==
    /\ ~crashed
    /\ pc[t] = "reread"
    /\ Return(t, IF op[t] = "init" THEN UnitRet
                                   ELSE OnceLockGet(data[cont[t]]))
    /\ DropLocals(t)
    /\ UNCHANGED <<data, heap, calls, op, cont, phase, hooks, ghosts,
                   faults, disjoint,
                   crashed, ubHit, orphans, nCalls, trigStarted, dataAtCall,
                   trigDoneAtCall, myCalls, myAllocs, startupInits, fillOrder>>

\* ---- specification ------------------------------------------------------

Next ==
    \/ \E t \in Threads, c \in Containers, o \in Ops : Call(t, c, o)
    \/ StartupCall
    \/ StartupDone
    \/ \E t \in Threads : InitCheck(t)
    \/ \E t \in Threads : DerefCheck(t)
    \/ \E t \in Threads : Get(t)
    \/ \E t \in Threads : GetUnchecked(t)
    \/ \E t \in Threads : AllocProduce(t)
    \/ \E t \in Threads : AllocBox(t)
    \/ \E t \in Threads : AllocFail(t)
    \/ \E t \in Threads : AllocSet(t)
    \/ \E t \in Threads : AllocReread(t)

Spec == Init /\ [][Next]_vars

\* the program that also formats its Globals
NextFmt ==
    \/ \E t \in Threads, c \in Containers, o \in FmtOps : Call(t, c, o)
    \/ StartupCall
    \/ StartupDone
    \/ \E t \in Threads : InitCheck(t)
    \/ \E t \in Threads : DerefCheck(t)
    \/ \E t \in Threads : Get(t)
    \/ \E t \in Threads : AllocProduce(t)
    \/ \E t \in Threads : AllocBox(t)
    \/ \E t \in Threads : AllocFail(t)
    \/ \E t \in Threads : AllocSet(t)
    \/ \E t \in Threads : AllocReread(t)

FmtSpec == Init /\ [][NextFmt]_vars

\* the steps of thread t inside a call it has made
Step(t) ==
    \/ InitCheck(t) \/ DerefCheck(t) \/ Get(t) \/ GetUnchecked(t)
    \/ AllocProduce(t) \/ AllocBox(t) \/ AllocSet(t) \/ AllocReread(t)

\* every thread that is inside a call keeps running, and the startup
\* functions run to their end; a producer or an allocation need not fail
FairSpec ==
    /\ Spec
    /\ \A t \in Threads : WF_vars(Step(t))
    /\ WF_vars(StartupCall)
    /\ WF_vars(StartupDone)

\* ---- type invariant -----------------------------------------------------

TypeOK ==
    /\ \A c \in Containers : data[c] \in 0..Len(heap)
    /\ \A c \in Containers : calls[c] \in Nat
    /\ \A t \in Threads : cont[t] \in Containers
    /\ phase \in {"startup", "main"}
    /\ crashed \in BOOLEAN

\* ---- properties ---------------------------------------------------------

Returned(t) == pc[t] = "idle" /\ op[t] # "none" /\ ret[t] # PanicRet

IsAddr(r) == r \in 1..Len(heap)

\* the results the producer of c has returned so far
Produced(c) == {Producer(c, k) : k \in 1..calls[c]}

\* C1: the producer of a container is invoked at most once, whatever the
\* interleaving of the threads that call init() and deref on it.
C1_ProducerAtMostOnce == \A c \in Containers : calls[c] <= 1

\* C2: deref calls racing on one empty container all return the address held
\* by the slot, and no call of deref, get or get_unchecked returns the
\* address of a value whose publication lost the race.
C2_RaceSameAddress ==
    /\ \A t, u \in Threads :
          ( /\ Returned(t) /\ op[t] = "deref" /\ dataAtCall[t] = Empty
            /\ Returned(u) /\ op[u] = "deref" /\ dataAtCall[u] = Empty
            /\ cont[t] = cont[u] )
          => (ret[t] = ret[u] /\ ret[t] = data[cont[t]])
    /\ \A t \in Threads :
          (Returned(t) /\ op[t] \in {"deref", "get", "get_unchecked"})
          => ret[t] \notin orphans

\* C3: once the slot of a container holds an address it holds that address
\* in every later state: it is filled at most once and never emptied.
C3_SlotFilledOnce ==
    [][\A c \in Containers : data[c] # Empty => data'[c] = data[c]]_vars

\* C3 witness: a second publication was attempted on a filled slot
C3_Witness ==
    \E c \in Containers :
        /\ data[c] # Empty
        /\ \E a \in orphans : heap[a][1] = c /\ a # data[c]

\* C4: a get() called after a trigger on its container has returned gives
\* Some(reference) to a value the producer of that container returned,
\* never None.
C4_GetAfterTrigger ==
    /\ \A c \in Containers : trigReturned[c] => data[c] # Empty
    /\ \A t \in Threads :
          (Returned(t) /\ op[t] = "get" /\ trigDoneAtCall[t])
          => (IsAddr(ret[t]) /\ heap[ret[t]] \in Produced(cont[t]))

\* C4 witness: a get() called after a trigger returned has itself returned
C4_Witness ==
    \E t \in Threads :
        /\ Returned(t) /\ op[t] = "get" /\ trigDoneAtCall[t]
        /\ IsAddr(ret[t])

\* C5: a container starts with an empty slot, and as long as no trigger was
\* started on it the slot is empty and get() returns None.
C5_EmptyBeforeTrigger ==
    \A c \in Containers :
        ~trigStarted[c] =>
            /\ data[c] = Empty
            /\ \A t \in Threads :
                  (Returned(t) /\ op[t] = "get" /\ cont[t] = c)
                  => ret[t] = NoneRet

\* C5 witness: get() has returned on a container no trigger was started on
C5_Witness ==
    \E t \in Threads :
        /\ Returned(t) /\ op[t] = "get" /\ ~trigStarted[cont[t]]
        /\ ret[t] = NoneRet

\* C6: an init() called on a filled slot invokes the producer zero times,
\* allocates nothing and leaves the address in the slot as it found it.
C6_InitIdempotent ==
    \A t \in Threads :
        (op[t] = "init" /\ dataAtCall[t] # Empty) =>
            /\ myCalls[t] = 0
            /\ myAllocs[t] = 0
            /\ data[cont[t]] = dataAtCall[t]
            /\ pc[t] \in {"init_check", "idle"}

\* C6 witness: an init() called on a filled slot has returned
C6_Witness ==
    \E t \in Threads :
        /\ Returned(t) /\ op[t] = "init" /\ dataAtCall[t] # Empty
        /\ ret[t] = UnitRet

\* C7: every deref, on an empty as on a filled slot, returns the address held
\* by the slot, which refers to a value the producer of the container
\* returned, and a get() made after a deref returns that same value.
C7_DerefReturnsSlot ==
    /\ \A t \in Threads :
          (Returned(t) /\ op[t] = "deref") =>
              /\ IsAddr(ret[t])
              /\ ret[t] = data[cont[t]]
              /\ heap[ret[t]] \in Produced(cont[t])
    /\ \A t, u \in Threads :
          ( /\ Returned(t) /\ op[t] = "deref"
            /\ Returned(u) /\ op[u] = "get" /\ trigDoneAtCall[u]
            /\ cont[t] = cont[u] /\ IsAddr(ret[t]) /\ IsAddr(ret[u]) )
          => heap[ret[u]] = heap[ret[t]]

\* C8: get() is a pure read: it invokes no producer, allocates nothing,
\* leaves every slot as it is, and returns in its one step, which no other
\* thread can hold up.
C8_GetPure ==
    /\ [](\A t \in Threads :
            /\ op[t] = "get" => (myCalls[t] = 0 /\ myAllocs[t] = 0)
            /\ (pc[t] = "get_read" /\ ~crashed) => ENABLED Get(t))
    /\ [][\A t \in Threads :
            (pc[t] = "get_read" /\ pc'[t] # "get_read") =>
                /\ data' = data
                /\ heap' = heap
                /\ calls' = calls
                /\ pc'[t] = "idle"
                /\ ret'[t] = IF data[cont[t]] = Empty THEN NoneRet
                                                      ELSE data[cont[t]]]_vars

\* C8 witness: get() has returned None on an empty slot and left it empty
\* while another thread is in the middle of alloc() on the same container
C8_Witness ==
    \E t, u \in Threads :
        /\ Returned(t) /\ op[t] = "get" /\ ret[t] = NoneRet
        /\ data[cont[t]] = Empty
        /\ u # t /\ cont[u] = cont[t] /\ pc[u] = "set"

\* C9: once the generated startup functions have run to completion, every
\* registered container is filled with a value of its own producer without
\* any reader having triggered it: get() returns Some(value) and
\* get_unchecked meets a filled slot.
C9_EagerFilled ==
    (phase = "main" /\ registered # {}) =>
        /\ \A c \in registered :
              /\ IsAddr(data[c])
              /\ heap[data[c]] = Producer(c, 1)
              /\ calls[c] = 1
        /\ \A t \in Threads :
              (Returned(t) /\ op[t] \in {"get", "get_unchecked"}
                           /\ cont[t] \in registered)
              => (ret[t] = data[cont[t]] /\ IsAddr(ret[t]))
        /\ ~ubHit

\* C9 witness: the startup functions are done, no reader has called anything
\* yet, and later a get() has returned on a registered container
C9_Witness ==
    /\ phase = "main" /\ registered = Containers
    /\ \A c \in Containers : IsAddr(data[c])
    /\ nCalls = 1
    /\ \E t \in Threads : Returned(t) /\ op[t] = "get" /\ IsAddr(ret[t])

\* C10: the startup function of one ctor_static! block calls init() exactly
\* once on every container of the block, in declaration order: the i-th
\* declared container is filled before the (i+1)-th.
C10_DeclarationOrder ==
    blockDecl =>
        /\ \A c \in Containers : startupInits[c] <= 1
        /\ phase = "main" => \A c \in Containers : startupInits[c] = 1
        /\ \A i \in 1..Len(fillOrder) : fillOrder[i] = i
        /\ \A c, d \in Containers :
              (phase = "startup" /\ c < d /\ startupInits[d] = 1)
              => (startupInits[c] = 1 /\ data[c] # Empty)

\* C10 witness: the first declared container is filled, the next one is not
C10_Witness ==
    /\ blockDecl /\ phase = "startup"
    /\ data[1] # Empty /\ data[NumContainers] = Empty
    /\ startupInits[NumContainers] = 1

\* C11: with a producer that returns and an allocation that succeeds, every
\* call of init() and of deref made by a thread that keeps running returns,
\* whatever the other threads do with init, deref and get, and deref returns
\* a reference to the value the slot holds.
C11_CallsReturn ==
    /\ \A t \in Threads :
          (pc[t] # "idle") ~> (pc[t] = "idle" \/ faults # {})
    /\ [](\A t \in Threads :
            (Returned(t) /\ op[t] = "deref" /\ faults = {})
            => (IsAddr(ret[t]) /\ ret[t] = data[cont[t]]))

\* C13: alloc() runs with the slot empty from its call up to and including
\* its publish step, so the set() inside alloc never fails.
C13_AllocOnEmpty ==
    /\ \A t \in Threads :
          pc[t] \in {"produce", "box", "set"} => data[cont[t]] = Empty
    /\ orphans = {}

\* the boxes allocated for container c
Boxes(c) == {a \in 1..Len(heap) : heap[a][1] = c}

\* C12: when the allocate-and-fill sequence fails before its publish step
\* (the producer panics or the allocation fails), the failing step leaves
\* every slot and the heap as they were; while every attempt on a container
\* has failed its slot is still Empty and get() returns None.
C12_FailureLeavesSlot ==
    /\ [][(faults' # faults /\ faults' \ faults \subseteq {"panic", "alloc"})
            => (data' = data /\ heap' = heap /\ fillOrder' = fillOrder)]_vars
    /\ [](\A c \in Containers :
            (calls[c] > 0 /\ Boxes(c) = {}) =>
                /\ data[c] = Empty
                /\ \A t \in Threads :
                      (Returned(t) /\ op[t] = "get" /\ cont[t] = c)
                      => ret[t] = NoneRet)

\* C12 witness: a producer panicked inside a trigger, the slot is still
\* Empty and a get() made afterwards returned None
C12_Witness ==
    \E t, u \in Threads :
        /\ ret[t] = PanicRet /\ pc[t] = "idle" /\ op[t] \in Triggers
        /\ "panic" \in faults
        /\ data[cont[t]] = Empty
        /\ Returned(u) /\ op[u] = "get" /\ cont[u] = cont[t]
        /\ ret[u] = NoneRet /\ calls[cont[t]] = 1

\* C14: the address in a Filled slot refers to a box whose value was fully
\* built (producer returned, value moved into the allocation) before it was
\* published, and whoever observes Filled through get, deref or
\* get_unchecked gets a reference to such a value.
C14_FilledIsConstructed ==
    /\ \A c \in Containers :
          data[c] # Empty =>
              /\ IsAddr(data[c])
              /\ heap[data[c]] \in Produced(c)
              /\ \A t \in Threads :
                    ptr[t] = data[c] => pc[t] \notin {"produce", "box", "set"}
    /\ \A t \in Threads :
          ( /\ Returned(t)
            /\ \/ op[t] = "get" /\ ret[t] # NoneRet
               \/ op[t] \in {"deref", "get_unchecked"} /\ dataAtCall[t] # Empty )
          => /\ IsAddr(ret[t])
             /\ ret[t] = data[cont[t]]
             /\ heap[ret[t]] \in Produced(cont[t])

\* C14 witness: a reader observed Filled while the thread that published is
\* still inside alloc()
C14_Witness ==
    \E t, u \in Threads :
        /\ Returned(t) /\ op[t] = "get" /\ IsAddr(ret[t])
        /\ u # t /\ cont[u] = cont[t]
        /\ pc[u] = "reread" /\ ptr[u] = data[cont[t]]

\* the publications that filled the slot of container c
Fills(c) == {i \in 1..Len(fillOrder) : fillOrder[i] = c}

\* C15: when the triggers on a container do not overlap, any sequence of
\* init, deref and get calls on it causes one producer invocation, one
\* allocation and one fill, all inside the first trigger, and none later.
C15_DisjointTriggersOnce ==
    \A c \in Containers :
        disjoint[c] =>
            /\ calls[c] <= 1
            /\ Cardinality(Boxes(c)) <= 1
            /\ Cardinality(Fills(c)) <= 1
            /\ trigReturned[c] =>
                  /\ calls[c] = 1
                  /\ Cardinality(Boxes(c)) = 1
                  /\ Cardinality(Fills(c)) = 1
            /\ \A t \in Threads :
                  (cont[t] = c /\ op[t] # "none"
                               /\ (trigDoneAtCall[t] \/ op[t] = "get"))
                  => (myCalls[t] = 0 /\ myAllocs[t] = 0)

\* C15 witness: a second trigger has returned on a container whose first
\* trigger had returned before, and a single value was built
C15_Witness ==
    \E t \in Threads :
        /\ Returned(t) /\ op[t] \in Triggers /\ trigDoneAtCall[t]
        /\ disjoint[cont[t]] /\ calls[cont[t]] = 1
        /\ nCalls = 2 /\ registered = {}

\* C16: containers are independent: a step changes the slot of a container
\* or invokes its producer only inside an operation called on that container,
\* and whatever the order in which separately registered startup functions
\* run their init(), every container ends up holding the first result of its
\* own producer.
C16_Independent ==
    /\ [][\A b \in Containers :
            (data'[b] # data[b] \/ calls'[b] # calls[b]) =>
                \E t \in Threads :
                    /\ cont[t] = b
                    /\ pc[t] \in {"produce", "set"}
                    /\ pc'[t] # pc[t]]_vars
    /\ []((~blockDecl /\ registered # {} /\ phase = "main" /\ nCalls = 0) =>
            \A c \in Containers :
                /\ calls[c] = 1
                /\ IsAddr(data[c])
                /\ heap[data[c]] = Producer(c, 1))

\* C16 witness: the startup functions of separately registered statics ran
\* against declaration order and every static is filled
C16_Witness ==
    /\ ~blockDecl /\ registered = Containers /\ phase = "main"
    /\ Len(fillOrder) = NumContainers
    /\ fillOrder[1] = NumContainers
    /\ \A c \in Containers : heap[data[c]] = Producer(c, 1)

\* C17: formatting a container with Debug or Display goes through deref: on
\* an Empty slot it runs the allocate-and-fill sequence and leaves the slot
\* Filled, on a Filled slot it invokes the producer zero times and leaves
\* the slot unchanged.
C17_FmtIsTrigger ==
    \A t \in Threads :
        op[t] = "fmt" =>
            /\ trigStarted[cont[t]]
            /\ dataAtCall[t] # Empty =>
                  /\ myCalls[t] = 0
                  /\ myAllocs[t] = 0
                  /\ data[cont[t]] = dataAtCall[t]
            /\ Returned(t) =>
                  /\ IsAddr(data[cont[t]])
                  /\ heap[data[cont[t]]] \in Produced(cont[t])
            /\ (Returned(t) /\ dataAtCall[t] = Empty /\ disjoint[cont[t]]) =>
                  /\ myCalls[t] = 1
                  /\ myAllocs[t] = 1
                  /\ ret[t] = data[cont[t]]

\* C17 witness: a formatting of an Empty container has returned and left it
\* Filled, and a formatting of a Filled container has returned
C17_Witness ==
    \E t, u \in Threads :
        /\ Returned(t) /\ op[t] = "fmt" /\ dataAtCall[t] = Empty
        /\ myCalls[t] = 1 /\ IsAddr(data[cont[t]])
        /\ Returned(u) /\ op[u] = "fmt" /\ dataAtCall[u] # Empty
        /\ cont[u] = cont[t] /\ ret[u] = data[cont[t]]

====
